---- MODULE Spec2Model ----
(***************************************************************************)
(* Model of app.py: the document loader, the profile context builder, the  *)
(* prompt assembled at import time, and the /api/chat request handler.     *)
(*                                                                         *)
(* A Python str is a sequence of tokens; " " and "\n" are the whitespace   *)
(* tokens, every other token is a run of non-whitespace text.  A fixed     *)
(* literal of the source (a heading, the placeholder) is one token.        *)
(***************************************************************************)
EXTENDS Integers, Sequences, FiniteSets, TLC

VARIABLES env, dir, phase, PERSON_NAME, PROFILE_CONTEXT, DEFAULT_MODEL,
          SYSTEM_PROMPT, loaded, workers

vars == <<env, dir, phase, PERSON_NAME, PROFILE_CONTEXT, DEFAULT_MODEL,
          SYSTEM_PROMPT, loaded, workers>>

(* ------------------------------ bounds -------------------------------- *)

MaxPages == 2

MaxHist == 2

NumWorkers == 2

(* ------------------------------ strings ------------------------------- *)

WS == {" ", "\n"}

RECURSIVE LStrip(_)
LStrip(s) == IF s = <<>> THEN s
             ELSE IF Head(s) \in WS THEN LStrip(Tail(s)) ELSE s

RECURSIVE RStrip(_)
RStrip(s) == IF s = <<>> THEN s
             ELSE IF s[Len(s)] \in WS THEN RStrip(SubSeq(s, 1, Len(s) - 1)) ELSE s

\* str.strip()
Strip(s) == RStrip(LStrip(s))

\* sep.join(parts)
RECURSIVE Join(_, _)
Join(sep, parts) == IF parts = <<>> THEN <<>>
                    ELSE IF Len(parts) = 1 THEN parts[1]
                    ELSE parts[1] \o sep \o Join(sep, Tail(parts))

\* The outcome of a call: a returned str, or an exception leaving the callee.
Ret(s) == [raised |-> FALSE, value |-> s]

Raise == [raised |-> TRUE, value |-> <<>>]

(* --------------------------- the data directory ----------------------- *)

TXT(name) == <<name, "txt">>

PDF(name) == <<name, "pdf">>

ALT_RESUME == <<"Ashish_Jaiswal", "pdf">>

SectionNames == {"resume", "linkedin"}

Paths == {TXT(n) : n \in SectionNames} \cup {PDF(n) : n \in SectionNames} \cup {ALT_RESUME}

\* What can be found at a path.  kind "absent": no regular file; "text": a file
\* that decodes as UTF-8 to `text`; "binary": a file that is no valid UTF-8 and
\* no parsable PDF (a zero-byte or truncated .pdf among them); "pdf": a PDF whose
\* pages extract to `pages`.
NoFile == [kind |-> "absent", text |-> <<>>, pages |-> <<>>]

TextFile(s) == [kind |-> "text", text |-> s, pages |-> <<>>]

BadFile == [kind |-> "binary", text |-> <<>>, pages |-> <<>>]

PdfFile(ps) == [kind |-> "pdf", text |-> <<>>, pages |-> ps]

\* page.extract_text(): None, or a str
PageNone == [none |-> TRUE, text |-> <<>>]

PageText(s) == [none |-> FALSE, text |-> s]

(* ---------------------------- Document Loader ------------------------- *)

\* _read_text_file(path) against directory d
_read_text_file(d, path) ==
    IF d[path].kind = "absent" THEN Ret(<<>>)
    ELSE IF d[path].kind = "text" THEN Ret(d[path].text)
    ELSE Raise   \* read_text(encoding="utf-8"): UnicodeDecodeError

\* the loop over reader.pages: text_parts
RECURSIVE text_parts(_)
text_parts(pages) ==
    IF pages = <<>> THEN <<>>
    ELSE LET content == IF Head(pages).none THEN <<>> ELSE Head(pages).text
         IN  IF content # <<>> THEN <<content>> \o text_parts(Tail(pages))
             ELSE text_parts(Tail(pages))

\* _read_pdf_file(path) against directory d
_read_pdf_file(d, path) ==
    IF d[path].kind = "absent" THEN Ret(<<>>)
    ELSE IF d[path].kind = "pdf" THEN Ret(Join(<<"\n">>, text_parts(d[path].pages)))
    ELSE Raise   \* PdfReader(str(path)) on a file that is no PDF

\* load_section with the .pdf tried before the .txt
load_section_pdf_first(d, name) ==
    LET t1 == _read_pdf_file(d, PDF(name))
        t2 == IF t1.raised THEN t1
              ELSE IF Strip(t1.value) = <<>> THEN _read_text_file(d, TXT(name)) ELSE t1
    IN  IF t2.raised THEN t2
        ELSE IF name = "resume" /\ Strip(t2.value) = <<>>
             THEN _read_pdf_file(d, ALT_RESUME)
             ELSE t2

\* load_section(name) against directory d
load_section(d, name) ==
    LET t1 == _read_text_file(d, TXT(name))
        t2 == IF t1.raised THEN t1
              ELSE IF Strip(t1.value) = <<>> THEN _read_pdf_file(d, PDF(name)) ELSE t1
    IN  IF t2.raised THEN t2
        ELSE IF name = "resume" /\ Strip(t2.value) = <<>>
             THEN _read_pdf_file(d, ALT_RESUME)
             ELSE t2

(* ------------------------ Profile Context Builder --------------------- *)

PLACEHOLDER == <<"No profile data is available yet. Please add your resume/LinkedIn text or PDFs to the data/ directory as resume.txt / resume.pdf and linkedin.txt / linkedin.pdf.">>

\* build_profile_context() against directory d
build_profile_context(d) ==
    LET resume == load_section(d, "resume")
        linkedin == IF resume.raised THEN resume ELSE load_section(d, "linkedin")
    IN  IF resume.raised \/ linkedin.raised THEN Raise
        ELSE LET p1 == IF Strip(resume.value) # <<>>
                       THEN << <<"## Resume", "\n">> \o resume.value >> ELSE <<>>
                 p2 == IF Strip(linkedin.value) # <<>>
                       THEN << <<"## LinkedIn Profile", "\n">> \o linkedin.value >> ELSE <<>>
                 parts == IF p1 \o p2 = <<>> THEN <<PLACEHOLDER>> ELSE p1 \o p2
             IN  Ret(Join(<<"\n", "\n">>, parts))

(* ---------------------------- Prompt Assembler ------------------------ *)

UNSET == "<unset>"

\* os.getenv(name, default)
Getenv(e, name, default) == IF e[name] = UNSET THEN default ELSE e[name]

\* the f-string of SYSTEM_PROMPT
system_prompt(person, context) ==
    <<"You are acting as ", person,
      ". You are answering questions from recruiters about ", person,
      "'s career, background, skills, and experience. Your responsibility is to represent ",
      person,
      " as faithfully and accurately as possible, based only on the information provided.",
      "\n", "\n",
      "Use the resume and LinkedIn information below to answer questions. If you don't know the answer from this information, say that you are not sure instead of inventing details.",
      "\n", "\n">> \o context

(* ------------------------------ JSON values --------------------------- *)

\* A scalar of the request body: a missing key, null, a non-zero number, or a
\* string.  Python truthiness: a missing key (None from dict.get), null and ""
\* are falsy; a non-zero number and a non-empty string are truthy.
Absent == [t |-> "absent", s |-> <<>>]

Null == [t |-> "null", s |-> <<>>]

Num == [t |-> "num", s |-> <<>>]

Str(s) == [t |-> "str", s |-> s]

Truthy(v) == v.t = "num" \/ (v.t = "str" /\ v.s # <<>>)

\* A history item: a JSON number (no mapping), or an object with optional
\* "role" and "content" and, when `extra`, one more key ("name").
NumItem == [t |-> "num", role |-> Absent, content |-> Absent, extra |-> FALSE]

ObjItem(r, c, x) == [t |-> "obj", role |-> r, content |-> c, extra |-> x]

\* "history": missing, a non-zero number, or an array of items
NoHistory == [t |-> "absent", items |-> <<>>]

NumHistory == [t |-> "num", items |-> <<>>]

ListHistory(its) == [t |-> "list", items |-> its]

\* The parsed request body: null, a non-empty array, or an object.
NullBody == [t |-> "null", message |-> Absent, history |-> NoHistory]

ArrayBody == [t |-> "list", message |-> Absent, history |-> NoHistory]

ObjBody(m, h) == [t |-> "obj", message |-> m, history |-> h]

(* ------------------------------- Chat Relay --------------------------- *)

\* A response of the HTTP surface.  kind "json": jsonify of an object with
\* exactly the key `key`; kind "unhandled": an exception left chat() and the
\* framework answered with its own 500 page.
JsonResponse(status, key, value) ==
    [kind |-> "json", status |-> status, key |-> key, value |-> value]

Unhandled == [kind |-> "unhandled", status |-> 500, key |-> "", value |-> Absent]

NoResponse == [kind |-> "none", status |-> 0, key |-> "", value |-> Absent]

\* What client.chat.completions.create does: returns a completion whose first
\* choice has `text` as message content (a str or None), returns a completion
\* with no choices, or raises an exception whose str() is `text`.
NoOutcome == [kind |-> "none", text |-> Absent]

Idle == [pc |-> "idle", body |-> NullBody, sent |-> <<>>,
         outcome |-> NoOutcome, response |-> NoResponse]

\* the message taken without .strip()
message_of_no_strip(data) ==
    IF Truthy(data.message)
    THEN IF data.message.t = "str" THEN Ret(data.message.s) ELSE Raise
    ELSE Ret(<<>>)

\* message = (data.get("message") or "").strip()
message_of(data) ==
    IF Truthy(data.message)
    THEN IF data.message.t = "str" THEN Ret(Strip(data.message.s)) ELSE Raise
    ELSE Ret(<<>>)

\* the shape check of one history item
item_ok(item) ==
    /\ item.t = "obj"
    /\ item.role.t = "str" /\ item.role.s \in {<<"user">>, <<"assistant">>}
    /\ item.content.t = "str"

\* the loop with the role test left out
RECURSIVE normalize_history_any_role(_)
normalize_history_any_role(items) ==
    IF items = <<>> THEN <<>>
    ELSE IF Head(items).t = "obj" /\ Head(items).role.t = "str"
            /\ Head(items).content.t = "str"
         THEN <<[role |-> Head(items).role.s, content |-> Head(items).content.s]>>
              \o normalize_history_any_role(Tail(items))
         ELSE normalize_history_any_role(Tail(items))

\* the loop leaving at the first malformed item (break for continue)
RECURSIVE normalize_history_break(_)
normalize_history_break(items) ==
    IF items = <<>> THEN <<>>
    ELSE IF item_ok(Head(items))
         THEN <<[role |-> Head(items).role.s, content |-> Head(items).content.s]>>
              \o normalize_history_break(Tail(items))
         ELSE <<>>

\* the loop building normalized_history
RECURSIVE normalize_history(_)
normalize_history(items) ==
    IF items = <<>> THEN <<>>
    ELSE IF item_ok(Head(items))
         THEN <<[role |-> Head(items).role.s, content |-> Head(items).content.s]>>
              \o normalize_history(Tail(items))
         ELSE normalize_history(Tail(items))

\* the system message rebuilt from the data directory on each request
system_message_reloaded ==
    LET c == build_profile_context(dir)
    IN  [role |-> <<"system">>,
         content |-> system_prompt(PERSON_NAME, IF c.raised THEN <<>> ELSE c.value)]

\* {"role": "system", "content": SYSTEM_PROMPT}
system_message == [role |-> <<"system">>, content |-> SYSTEM_PROMPT]

\* chat() up to and including the call of client.chat.completions.create: the
\* worker's state when the handler blocks in the call or has returned early.
chat_begin(body) ==
    IF body.t = "list"
    THEN [Idle EXCEPT !.pc = "done", !.body = body, !.response = Unhandled]
    ELSE
    LET data == IF body.t = "obj" THEN body ELSE ObjBody(Absent, NoHistory)
        message == message_of(data)
        history == data.history
    IN  IF message.raised
        THEN [Idle EXCEPT !.pc = "done", !.body = body, !.response = Unhandled]
        ELSE IF message.value = <<>>
        THEN [Idle EXCEPT !.pc = "done", !.body = body,
                          !.response = JsonResponse(400, "error", Str(<<"message is required">>))]
        ELSE IF history.t = "num"
        THEN [Idle EXCEPT !.pc = "done", !.body = body, !.response = Unhandled]
        ELSE [Idle EXCEPT !.pc = "calling", !.body = body,
                          !.sent = << [model |-> DEFAULT_MODEL,
                                       messages |-> <<system_message>>
                                                    \o normalize_history(history.items)
                                                    \o <<[role |-> <<"user">>,
                                                          content |-> message.value]>>] >>]

\* the response to one outcome of the call
reply_for(o) ==
    IF o.kind = "completion" THEN JsonResponse(200, "reply", o.text)
    ELSE IF o.kind = "no_choices"
         THEN JsonResponse(500, "error", Str(<<"list index out of range">>))
         ELSE JsonResponse(500, "error", o.text)

\* the handler with the call tried again after a failure
chat_end_retry(st, o) ==
    IF o.kind = "completion"
    THEN [st EXCEPT !.pc = "done", !.outcome = o, !.response = reply_for(o)]
    ELSE [st EXCEPT !.outcome = o, !.sent = st.sent \o <<st.sent[1]>>]

\* the handler with only API errors caught
chat_end_uncaught_index(st, o) ==
    [st EXCEPT !.pc = "done", !.outcome = o,
               !.response = IF o.kind = "no_choices" THEN Unhandled ELSE reply_for(o)]

\* chat() from the return of the call to the return of the handler
chat_end(st, o) ==
    [st EXCEPT !.pc = "done", !.outcome = o, !.response = reply_for(o)]

(* ------------------------------- inputs ------------------------------- *)

SeqsUpTo(S, n) == UNION {[1..k -> S] : k \in 0..n}

Texts == {<<>>, <<" ">>, <<"t">>, <<" ", "t", "\n">>}

PageKinds == {PageNone, PageText(<<>>), PageText(<<"p">>), PageText(<<" ">>)}

TxtStates == {NoFile, BadFile} \cup {TextFile(s) : s \in Texts}

PdfStates == {NoFile, BadFile} \cup {PdfFile(ps) : ps \in SeqsUpTo(PageKinds, MaxPages)}

AltSample == {NoFile, BadFile, PdfFile(<<PageText(<<"a">>)>>), PdfFile(<<PageText(<<" ">>)>>)}

\* directories holding the files of one section, and perhaps the alternate resume
LoadDirs ==
    {[p \in Paths |-> IF p = TXT(n) THEN t ELSE IF p = PDF(n) THEN f
                      ELSE IF p = ALT_RESUME THEN a ELSE NoFile] :
        n \in SectionNames, t \in TxtStates, f \in PdfStates, a \in AltSample}

TxtSample == {NoFile, BadFile, TextFile(<<" ">>), TextFile(<<"t", " ", "u">>)}

PdfSample == {NoFile, BadFile, PdfFile(<<>>), PdfFile(<<PageText(<<" ">>)>>),
              PdfFile(<<PageText(<<"p">>), PageText(<<"q">>)>>)}

BuildDirs ==
    {[p \in Paths |-> IF p = TXT("resume") THEN rt ELSE IF p = PDF("resume") THEN rp
                      ELSE IF p = ALT_RESUME THEN a ELSE IF p = TXT("linkedin") THEN lt
                      ELSE lp] :
        rt \in TxtSample, rp \in PdfSample, a \in AltSample, lt \in TxtSample,
        lp \in PdfSample}

EmptyDir == [p \in Paths |-> NoFile]

SampleDirs == {EmptyDir,
               [EmptyDir EXCEPT ![TXT("resume")] = TextFile(<<"t">>)],
               [EmptyDir EXCEPT ![PDF("linkedin")] = PdfFile(<<PageText(<<"p">>)>>)],
               [EmptyDir EXCEPT ![PDF("resume")] = BadFile]}

EnvNames == {"OPENAI_API_KEY", "PERSON_NAME", "OPENAI_MODEL"}

NoEnv == [n \in EnvNames |-> UNSET]

SampleEnvs == {NoEnv,
               [NoEnv EXCEPT !["OPENAI_API_KEY"] = "sk-test"],
               [NoEnv EXCEPT !["OPENAI_API_KEY"] = "sk-test",
                             !["PERSON_NAME"] = "Ashish Jaiswal",
                             !["OPENAI_MODEL"] = "gpt-4o"]}

ItemKinds == {NumItem,
              ObjItem(Str(<<"system">>), Str(<<"x">>), FALSE),
              ObjItem(Str(<<"user">>), Str(<<"hello">>), FALSE),
              ObjItem(Str(<<"assistant">>), Str(<<"ok">>), TRUE),
              ObjItem(Str(<<"user">>), Num, FALSE),
              ObjItem(Absent, Str(<<"x">>), FALSE)}

Messages == {Absent, Null, Str(<<>>), Str(<<" ", "\n">>),
             Str(<<" ", "Hi", " ", "there", "\n">>), Num}

Histories == {NoHistory, NumHistory}
             \cup {ListHistory(its) : its \in SeqsUpTo(ItemKinds, MaxHist)}

AllBodies == {NullBody, ArrayBody} \cup {ObjBody(m, h) : m \in Messages, h \in Histories}

SampleBodies ==
    {NullBody, ArrayBody,
     ObjBody(Str(<<" ">>), ListHistory(<<ObjItem(Str(<<"user">>), Str(<<"hello">>), FALSE)>>)),
     ObjBody(Num, NoHistory),
     ObjBody(Str(<<"Hi">>), NumHistory),
     ObjBody(Str(<<" ", "Hi">>), NoHistory),
     ObjBody(Str(<<"Hi">>), ListHistory(<<ObjItem(Str(<<"system">>), Str(<<"x">>), FALSE),
                                          ObjItem(Str(<<"user">>), Str(<<"hello">>), FALSE)>>))}

Outcomes == {[kind |-> "completion", text |-> Str(<<"Hello!">>)],
             [kind |-> "completion", text |-> Null],
             [kind |-> "no_choices", text |-> Absent],
             [kind |-> "error", text |-> Str(<<"Connection error.">>)]}

Workers == 1..NumWorkers

(* ------------------------------- actions ------------------------------ *)

NotLoaded == [called |-> FALSE, name |-> "", result |-> Ret(<<>>)]

InitWith(dirs, envs) ==
    /\ env \in envs
    /\ dir \in dirs
    /\ phase = "boot"
    /\ PERSON_NAME = UNSET
    /\ PROFILE_CONTEXT = <<>>
    /\ DEFAULT_MODEL = UNSET
    /\ SYSTEM_PROMPT = <<>>
    /\ loaded = NotLoaded
    /\ workers = [w \in Workers |-> Idle]

\* The import of the module: the API key check, then the module-level constants.
Startup ==
    /\ phase = "boot"
    /\ IF env["OPENAI_API_KEY"] \in {UNSET, ""}
       THEN /\ phase' = "no_api_key"
            /\ UNCHANGED <<PERSON_NAME, PROFILE_CONTEXT, DEFAULT_MODEL, SYSTEM_PROMPT>>
       ELSE LET person == Getenv(env, "PERSON_NAME", "Your Name")
                context == build_profile_context(dir)
            IN  IF context.raised
                THEN /\ phase' = "load_failed"
                     /\ PERSON_NAME' = person
                     /\ UNCHANGED <<PROFILE_CONTEXT, DEFAULT_MODEL, SYSTEM_PROMPT>>
                ELSE /\ phase' = "serving"
                     /\ PERSON_NAME' = person
                     /\ PROFILE_CONTEXT' = context.value
                     /\ DEFAULT_MODEL' = Getenv(env, "OPENAI_MODEL", "gpt-4o-mini")
                     /\ SYSTEM_PROMPT' = system_prompt(person, context.value)
    /\ UNCHANGED <<env, dir, loaded, workers>>

\* One call of load_section(name).
LoadSection(name) ==
    /\ ~loaded.called
    /\ loaded' = [called |-> TRUE, name |-> name, result |-> load_section(dir, name)]
    /\ UNCHANGED <<env, dir, phase, PERSON_NAME, PROFILE_CONTEXT, DEFAULT_MODEL,
                   SYSTEM_PROMPT, workers>>

\* A POST /api/chat arrives at worker w and chat() runs until it returns or
\* blocks in the completion call.
ChatReceive(w, body) ==
    /\ phase = "serving"
    /\ workers[w].pc = "idle"
    /\ workers' = [workers EXCEPT ![w] = chat_begin(body)]
    /\ UNCHANGED <<env, dir, phase, PERSON_NAME, PROFILE_CONTEXT, DEFAULT_MODEL,
                   SYSTEM_PROMPT, loaded>>

\* The completion call of worker w ends with outcome o and chat() returns.
ChatReturn(w, o) ==
    /\ workers[w].pc = "calling"
    /\ workers' = [workers EXCEPT ![w] = chat_end(workers[w], o)]
    /\ UNCHANGED <<env, dir, phase, PERSON_NAME, PROFILE_CONTEXT, DEFAULT_MODEL,
                   SYSTEM_PROMPT, loaded>>

\* The response of worker w has gone out; the worker takes the next request.
ChatRespond(w) ==
    /\ workers[w].pc = "done"
    /\ workers' = [workers EXCEPT ![w] = Idle]
    /\ UNCHANGED <<env, dir, phase, PERSON_NAME, PROFILE_CONTEXT, DEFAULT_MODEL,
                   SYSTEM_PROMPT, loaded>>

\* The operator edits the data directory while the process serves.
DataDirChanges(d) ==
    /\ phase = "serving"
    /\ d # dir
    /\ dir' = d
    /\ UNCHANGED <<env, phase, PERSON_NAME, PROFILE_CONTEXT, DEFAULT_MODEL,
                   SYSTEM_PROMPT, loaded, workers>>

(* ---------------------------- specifications -------------------------- *)

\* The serving process: concurrent requests over a sample of bodies.
Init == InitWith(SampleDirs, SampleEnvs)

Next ==
    \/ Startup
    \/ \E w \in Workers : \E b \in SampleBodies : ChatReceive(w, b)
    \/ \E w \in Workers : \E o \in Outcomes : ChatReturn(w, o)
    \/ \E w \in Workers : ChatRespond(w)
    \/ \E d \in SampleDirs : DataDirChanges(d)

Spec == Init /\ [][Next]_vars

\* One request at a time, over every body.
NextChat ==
    \/ Startup
    \/ \E b \in AllBodies : ChatReceive(1, b)
    \/ \E o \in Outcomes : ChatReturn(1, o)
    \/ ChatRespond(1)

SpecChat == Init /\ [][NextChat]_vars

\* load_section applied to every directory of one section.
InitLoad == InitWith(LoadDirs, {NoEnv})

NextLoad == \E n \in SectionNames : LoadSection(n)

SpecLoad == InitLoad /\ [][NextLoad]_vars

\* The import of the module over a sample of directories.
InitBuild == InitWith(BuildDirs, SampleEnvs)

NextBuild == Startup

SpecBuild == InitBuild /\ [][NextBuild]_vars

(* -------------------------------- claims ------------------------------ *)

\* A message that is missing, null, empty or made of whitespace only.
IsBlankMessage(m) ==
    \/ m.t \in {"absent", "null"}
    \/ m.t = "str" /\ \A i \in 1..Len(m.s) : m.s[i] \in WS

\* s without its leading and trailing whitespace, by position.
Trimmed(s) ==
    LET idx == {i \in 1..Len(s) : s[i] \notin WS}
    IN  IF idx = {} THEN <<>>
        ELSE SubSeq(s, CHOOSE i \in idx : \A j \in idx : i <= j,
                       CHOOSE i \in idx : \A j \in idx : i >= j)

\* A request whose message is a string with something left after trimming.
HasValidMessage(body) ==
    body.t = "obj" /\ body.message.t = "str" /\ Trimmed(body.message.s) # <<>>

\* The shape check as the specification words it.
ShapeOk(item) ==
    /\ item.t = "obj"
    /\ item.role \in {Str(<<"user">>), Str(<<"assistant">>)}
    /\ item.content.t = "str"

\* The well-shaped items of a history, in order, as role and content.
WellShaped(items) ==
    LET kept == SelectSeq(items, ShapeOk)
    IN  [i \in 1..Len(kept) |-> [role |-> kept[i].role.s, content |-> kept[i].content.s]]

\* The request with the malformed items deleted from its history.
Cleaned(body) == [body EXCEPT !.history.items = SelectSeq(@, ShapeOk)]

MessageRequired == JsonResponse(400, "error", Str(<<"message is required">>))

\* C1: a request (a JSON object, or null) whose message is missing, empty or
\* whitespace-only is answered {error: "message is required"} with status 400
\* and no completion call is made for it, whatever its history holds.
C1_BlankMessageRejected ==
    \A w \in Workers :
        LET st == workers[w]
        IN  (st.pc # "idle" /\ st.body.t \in {"obj", "null"} /\ IsBlankMessage(st.body.message))
            => (st.pc = "done" /\ st.response = MessageRequired /\ st.sent = <<>>)

C1_Witness ==
    \E w \in Workers :
        /\ workers[w].pc = "done"
        /\ workers[w].body.message = Str(<<" ", "\n">>)
        /\ workers[w].body.history.t = "list"
        /\ Len(workers[w].body.history.items) >= 1
        /\ workers[w].response = MessageRequired

\* C2: every message sequence handed to the completion API is the system
\* message holding SYSTEM_PROMPT, then the well-shaped history items in their
\* order, then the user message holding the trimmed message, with no system
\* role after the first position; and a request with a valid message and an
\* array (or no) history does reach the call.
C2_OutgoingSequence ==
    \A w \in Workers :
        LET st == workers[w]
            expected == <<[role |-> <<"system">>, content |-> SYSTEM_PROMPT]>>
                        \o WellShaped(st.body.history.items)
                        \o <<[role |-> <<"user">>, content |-> Trimmed(st.body.message.s)]>>
        IN  /\ \A i \in 1..Len(st.sent) :
                 /\ st.sent[i].messages = expected
                 /\ \A j \in 2..Len(st.sent[i].messages) :
                        st.sent[i].messages[j].role # <<"system">>
            /\ (st.pc # "idle" /\ HasValidMessage(st.body) /\ st.body.history.t # "num")
               => Len(st.sent) = 1

C2_Witness ==
    \E w \in Workers :
        /\ workers[w].pc = "calling"
        /\ workers[w].body.message = Str(<<" ", "Hi", " ", "there", "\n">>)
        /\ workers[w].body.history.items =
               <<ObjItem(Str(<<"system">>), Str(<<"x">>), FALSE),
                 ObjItem(Str(<<"user">>), Str(<<"hello">>), FALSE)>>
        /\ Len(workers[w].sent[1].messages) = 3

\* C3: for a request with a valid message and an array (or no) history, the
\* call made and the response given are those of the same request with the
\* malformed history items deleted, and the request is never rejected.
C3_MalformedItemsDropped ==
    \A w \in Workers :
        LET st == workers[w]
            clean == chat_begin(Cleaned(st.body))
        IN  (st.pc # "idle" /\ HasValidMessage(st.body) /\ st.body.history.t # "num")
            => /\ st.sent = clean.sent
               /\ st.response.kind # "unhandled"
               /\ st.response.status # 400
               /\ st.pc = "done" => st.response = chat_end(clean, st.outcome).response

C3_Witness ==
    \E w \in Workers :
        /\ workers[w].pc = "done"
        /\ HasValidMessage(workers[w].body)
        /\ Len(workers[w].body.history.items) = 2
        /\ ~ShapeOk(workers[w].body.history.items[1])
        /\ ShapeOk(workers[w].body.history.items[2])
        /\ workers[w].response.status = 200

\* C4: when the completion call of a request has ended, a failure of any kind
\* (an exception, a completion without choices) is answered {error: <its
\* description>} with status 500, never as an unhandled failure, and a success
\* is answered {reply: <the first choice's content>} with status 200.
C4_OutcomeToResponse ==
    \A w \in Workers :
        LET st == workers[w]
        IN  (st.pc = "done" /\ st.outcome.kind # "none")
            => /\ st.response.kind = "json"
               /\ st.outcome.kind = "completion"
                  => st.response = JsonResponse(200, "reply", st.outcome.text)
               /\ st.outcome.kind = "error"
                  => st.response = JsonResponse(500, "error", st.outcome.text)
               /\ st.outcome.kind = "no_choices"
                  => /\ st.response.status = 500
                     /\ st.response.key = "error"
                     /\ st.response.value.t = "str"

C4_Witness ==
    \E w \in Workers :
        /\ workers[w].pc = "done"
        /\ workers[w].outcome.kind = "no_choices"
        /\ workers[w].response.status = 500
        /\ workers[w].response.kind = "json"

\* C5: every request, whatever JSON value its body, its message and its history
\* are, ends in a JSON response with exactly one of reply and error.
C5_AlwaysStructured ==
    \A w \in Workers :
        workers[w].pc = "done"
        => workers[w].response.kind = "json" /\ workers[w].response.key \in {"reply", "error"}

\* C6: while the process serves, no step changes SYSTEM_PROMPT or the model
\* identifier, and every call of every worker starts with the system message
\* holding SYSTEM_PROMPT and names the model identifier.
C6_PromptFixed ==
    /\ [](\A w \in Workers : \A i \in 1..Len(workers[w].sent) :
             /\ workers[w].sent[i].messages[1] = [role |-> <<"system">>, content |-> SYSTEM_PROMPT]
             /\ workers[w].sent[i].model = DEFAULT_MODEL)
    /\ [][phase = "serving"
          => /\ SYSTEM_PROMPT' = SYSTEM_PROMPT
             /\ DEFAULT_MODEL' = DEFAULT_MODEL
             /\ SYSTEM_PROMPT' = system_prompt(PERSON_NAME', PROFILE_CONTEXT')]_vars

C6_Witness ==
    /\ workers[1].pc = "calling"
    /\ workers[2].pc = "calling"
    /\ workers[1].body # workers[2].body
    /\ build_profile_context(dir) # Ret(PROFILE_CONTEXT)

\* C7: a request makes at most one completion call; once the call has ended,
\* in failure too, the request is done and its response is the one that
\* outcome gives.
C7_SingleAttempt ==
    \A w \in Workers :
        LET st == workers[w]
        IN  /\ Len(st.sent) <= 1
            /\ st.outcome.kind # "none"
               => /\ st.pc = "done"
                  /\ Len(st.sent) = 1
                  /\ st.response.status = IF st.outcome.kind = "completion" THEN 200 ELSE 500

C7_Witness ==
    \E w \in Workers :
        /\ workers[w].pc = "done"
        /\ workers[w].outcome.kind = "error"
        /\ Len(workers[w].sent) = 1
        /\ workers[w].response.status = 500

\* C8: for every state of the data files, build_profile_context returns a
\* non-empty string: the placeholder exactly when both sections are blank,
\* the headed non-blank sections joined by a blank line otherwise.
C8_ContextNeverEmpty ==
    phase \notin {"boot", "no_api_key"}
    => /\ phase = "serving"
       /\ PROFILE_CONTEXT # <<>>
       /\ LET r == load_section(dir, "resume").value
              l == load_section(dir, "linkedin").value
              R == <<"## Resume", "\n">> \o r
              L == <<"## LinkedIn Profile", "\n">> \o l
          IN  PROFILE_CONTEXT =
                  IF Trimmed(r) = <<>> /\ Trimmed(l) = <<>> THEN PLACEHOLDER
                  ELSE IF Trimmed(l) = <<>> THEN R
                  ELSE IF Trimmed(r) = <<>> THEN L
                  ELSE R \o <<"\n", "\n">> \o L

\* The sources of a section in the order of the specification, and their texts.
Sources(name) ==
    <<TXT(name), PDF(name)>> \o (IF name = "resume" THEN <<ALT_RESUME>> ELSE <<>>)

SourceText(d, p) ==
    IF d[p].kind = "text" THEN d[p].text
    ELSE IF d[p].kind = "pdf" THEN _read_pdf_file(d, p).value
    ELSE <<>>

\* C9: when load_section returns, its result is the text of the first source,
\* in the order .txt, .pdf, alternate resume PDF (resume only), whose trimmed
\* text is non-empty, and is blank when there is none; a non-blank .txt is
\* always the result; the alternate file has no effect on another section.
C9_SourceOrder ==
    loaded.called
    => LET srcs == Sources(loaded.name)
           full == {i \in 1..Len(srcs) : Trimmed(SourceText(dir, srcs[i])) # <<>>}
           first == CHOOSE i \in full : \A j \in full : i <= j
       IN  /\ ~loaded.result.raised
              => IF full = {} THEN Trimmed(loaded.result.value) = <<>>
                 ELSE loaded.result.value = SourceText(dir, srcs[first])
           /\ 1 \in full => loaded.result = Ret(dir[TXT(loaded.name)].text)
           /\ loaded.name # "resume"
              => loaded.result = load_section([dir EXCEPT ![ALT_RESUME] = NoFile], loaded.name)

C9_Witness ==
    /\ loaded.called
    /\ loaded.name = "resume"
    /\ dir[TXT("resume")] = TextFile(<<" ">>)
    /\ dir[PDF("resume")].kind = "pdf"
    /\ Len(dir[PDF("resume")].pages) = 2
    /\ dir[ALT_RESUME].kind = "pdf"
    /\ loaded.result = Ret(<<"a">>)

\* C10: load_section returns a string for every section name and every state
\* of the data directory, and returns the empty string when no source is
\* found or every extraction is empty.
C10_NeverRaises ==
    loaded.called
    => /\ ~loaded.result.raised
       /\ (\A i \in 1..Len(Sources(loaded.name)) :
               SourceText(dir, Sources(loaded.name)[i]) = <<>>)
          => loaded.result.value = <<>>

====
